---- MODULE Spec2Model ----
(***************************************************************************)
(* The LangGraph workflow of bq_langraph_agent.ipynb: the three nodes      *)
(* (get_schema, data_chatbot, execute_sql), the router get_state, the      *)
(* State reducers, the MemorySaver checkpointer and the run loop that      *)
(* streams one update per completed node.                                  *)
(*                                                                         *)
(* data_chatbot_graph.stream is a generator: the caller's for-body runs    *)
(* while the generator is suspended at a yield.  One action of this model  *)
(* is the generator's code between two yields: it first commits the writes *)
(* of the node whose update was yielded last (reducers, checkpoint, step   *)
(* counter, recursion limit, routing) and then runs the next node, whose   *)
(* writes stay pending while its update is handed to the caller.           *)
(***************************************************************************)
EXTENDS Integers, Sequences, FiniteSets, TLC

\* ------------------------------------------------------------------ bounds
\* user inputs typed before "q" (the while loop of the last cell)
MaxTurns == 2

\* largest "recursion_limit" of the config dictionary tried; the notebook
\* passes 20, the model tries MaxRecursionLimit - 1 and MaxRecursionLimit
MaxRecursionLimit == 4

\* ------------------------------------------------------------- vocabulary
ThreadIds == {"101", "102"}

None == "None"

SchemaJson == "schema_json"

QueryTool == "execute_query_tool"

SubmitTool == "SubmitFinalAnswer"

END == "__end__"

\* what the model bound to both tools may answer: the tool_calls of the
\* AIMessage it returns (names only; the arguments do not steer the graph)
Responses == {<< >>, <<QueryTool>>, <<SubmitTool>>, <<QueryTool, SubmitTool>>}

\* the same, with responses that invoke the query tool more than once
MultiResponses ==
    Responses \cup {<<QueryTool, QueryTool>>, <<QueryTool, SubmitTool, QueryTool>>}

\* ------------------------------------------------------------------ state
VARIABLES
    store,            \* MemorySaver: thread id -> checkpoints, by checkpoint id
    values,           \* the run loop's channels: messages, dataset_schema
    pending,          \* writes of the node whose update was yielded last
    node,             \* the node run last in the turn
    status,           \* idle | running | done | error_schema | error_llm | out_of_steps
    step,             \* superstep counter of the run loop
    stop,             \* superstep at which the recursion limit trips
    updates,          \* updates yielded to the for-body in this turn
    fetches,          \* get_schema() calls issued on the thread
    fault,            \* collaborator failure met in the last step
    users,            \* user inputs still to come on the thread
    recursion_limit,  \* config["recursion_limit"]
    queries,          \* backend queries issued by the last step
    repertoire        \* the tool_calls lists the model may answer with

vars == <<store, values, pending, node, status, step, stop, updates, fetches,
          fault, users, recursion_limit, queries, repertoire>>

\* ----------------------------------------------------------------- messages
HumanMessage(id) ==
    [type |-> "human", id |-> id, content |-> "user", tool_calls |-> << >>,
     tool_call_id |-> None]

AIMessage(id, content, calls) ==
    [type |-> "ai", id |-> id, content |-> content,
     tool_calls |-> [i \in 1..Len(calls) |-> [name |-> calls[i], id |-> <<id, i>>]],
     tool_call_id |-> None]

ToolMessage(id, content, call) ==
    [type |-> "tool", id |-> id, content |-> content, tool_calls |-> << >>,
     tool_call_id |-> call.id]

EmptyState == [messages |-> << >>, dataset_schema |-> None]

NoWrites == [messages |-> << >>, set_schema |-> FALSE, dataset_schema |-> None]

IsPrefix(s, t) == Len(s) <= Len(t) /\ SubSeq(t, 1, Len(s)) = s

\* --------------------------------------------------------------- reducers
\* add_messages: a message whose id is already in the list replaces that
\* message in place, any other message is appended
AddOne(left, m) ==
    IF \E i \in 1..Len(left) : left[i].id = m.id
    THEN [i \in 1..Len(left) |-> IF left[i].id = m.id THEN m ELSE left[i]]
    ELSE Append(left, m)

RECURSIVE AddFrom(_, _, _)
AddFrom(left, right, i) ==
    IF i > Len(right) THEN left ELSE AddFrom(AddOne(left, right[i]), right, i + 1)

add_messages_overwrite(left, right) == right

add_messages(left, right) == AddFrom(left, right, 1)

\* one policy per field of State: messages through add_messages, the
\* dataset_schema overwritten when the node returned it
ApplyWritesReset(state, w) ==
    [messages |-> add_messages(state.messages, w.messages),
     dataset_schema |-> w.dataset_schema]

ApplyWrites(state, w) ==
    [messages |-> add_messages(state.messages, w.messages),
     dataset_schema |-> IF w.set_schema THEN w.dataset_schema
                        ELSE state.dataset_schema]

\* ------------------------------------------------------------ checkpointer
\* the serializer of MemorySaver: the state travels as a typed pair
Dumps(state) == <<"State", <<state.dataset_schema, state.messages>>>>

Loads(blob) == [messages |-> blob[2][2], dataset_schema |-> blob[2][1]]

PutNothing(cps, state, at, source) == cps

\* put: a new checkpoint under the next checkpoint id
Put(cps, state, at, source) ==
    cps @@ (Cardinality(DOMAIN cps) + 1 :>
              [step |-> at, source |-> source, blob |-> Dumps(state)])

NoCheckpoints == << >>

OldestId(cps) == CHOOSE i \in DOMAIN cps : \A j \in DOMAIN cps : i <= j

\* get_tuple without a checkpoint id: the checkpoint with the greatest id
LatestId(cps) == CHOOSE i \in DOMAIN cps : \A j \in DOMAIN cps : j <= i

\* the key of a conversation in the store: config["configurable"]["thread_id"]
StoreKeyShared(t) == "101"

StoreKey(t) == t

\* load: the saved state and the step of its metadata; a thread never saved
\* starts from the empty checkpoint, whose step is -2
Load(cps) ==
    IF DOMAIN cps = {} THEN [state |-> EmptyState, step |-> -2]
    ELSE [state |-> Loads(cps[LatestId(cps)].blob), step |-> cps[LatestId(cps)].step]

\* ------------------------------------------------------------------- nodes
FreshId(state) == Len(state.messages) + 1

\* get_schema(): the backend answers with the schema as a JSON string, or the
\* BigQuery client raises
get_schema_returns_none(backend_ok) ==
    IF backend_ok THEN [raised |-> FALSE, value |-> SchemaJson]
    ELSE [raised |-> FALSE, value |-> None]

get_schema(backend_ok) ==
    IF backend_ok THEN [raised |-> FALSE, value |-> SchemaJson]
    ELSE [raised |-> TRUE, value |-> None]

get_schema_node_always_fetch(state, backend_ok) ==
    IF get_schema(backend_ok).raised
    THEN [ok |-> FALSE, calls |-> 1, writes |-> NoWrites]
    ELSE [ok |-> TRUE, calls |-> 1,
          writes |-> [messages |-> <<AIMessage(FreshId(state), "Schema retrieved from BigQuery", << >>)>>,
                      set_schema |-> TRUE,
                      dataset_schema |-> get_schema(backend_ok).value]]

get_schema_node_no_store(state, backend_ok) ==
    IF state.dataset_schema = None
    THEN IF get_schema(backend_ok).raised
         THEN [ok |-> FALSE, calls |-> 1, writes |-> NoWrites]
         ELSE [ok |-> TRUE, calls |-> 1,
               writes |-> [messages |-> <<AIMessage(FreshId(state), "Schema retrieved from BigQuery", << >>)>>,
                           set_schema |-> FALSE,
                           dataset_schema |-> None]]
    ELSE [ok |-> TRUE, calls |-> 0,
          writes |-> [messages |-> <<AIMessage(FreshId(state), "Schema retrieved from memory", << >>)>>,
                      set_schema |-> FALSE,
                      dataset_schema |-> None]]

\* get_schema_node: ok is FALSE when the node raised, calls counts the
\* get_schema() calls it made, writes is the dictionary it returned
get_schema_node(state, backend_ok) ==
    IF state.dataset_schema = None
    THEN IF get_schema(backend_ok).raised
         THEN [ok |-> FALSE, calls |-> 1, writes |-> NoWrites]
         ELSE [ok |-> TRUE, calls |-> 1,
               writes |-> [messages |-> <<AIMessage(FreshId(state), "Schema retrieved from BigQuery", << >>)>>,
                           set_schema |-> TRUE,
                           dataset_schema |-> get_schema(backend_ok).value]]
    ELSE [ok |-> TRUE, calls |-> 0,
          writes |-> [messages |-> <<AIMessage(FreshId(state), "Schema retrieved from memory", << >>)>>,
                      set_schema |-> FALSE,
                      dataset_schema |-> None]]

\* what data_llm_with_tools.invoke may do: raise, or return an AIMessage
\* carrying one of the Responses
LlmOutcomes(answers) ==
    {[ok |-> FALSE, calls |-> << >>]} \cup {[ok |-> TRUE, calls |-> r] : r \in answers}

data_chatbot_node_swallow(state, llm) ==
    [ok |-> TRUE,
     writes |-> [NoWrites EXCEPT !.messages =
                    <<AIMessage(FreshId(state), IF llm.ok THEN "response" ELSE "error", llm.calls)>>]]

\* data_chatbot_node: the response of the model is the only message returned;
\* an exception of invoke leaves the node without a return value
data_chatbot_node(state, llm) ==
    IF llm.ok
    THEN [ok |-> TRUE,
          writes |-> [NoWrites EXCEPT !.messages =
                         <<AIMessage(FreshId(state), "response", llm.calls)>>]]
    ELSE [ok |-> FALSE, writes |-> NoWrites]

execute_query_tool_swallow(query_ok) == "rows"

\* execute_query_tool: the rows as a JSON string, or, from the except
\* branch, the JSON object {"BigQuery error": ...}
execute_query_tool(query_ok) == IF query_ok THEN "rows" ELSE "BigQuery error"

LastMessage(state) == state.messages[Len(state.messages)]

\* the tools handed to ToolNode
RegisteredTools == {QueryTool}

ToolNodeReversed(state, oks) ==
    LET calls == LastMessage(state).tool_calls IN
    [ok |-> TRUE,
     queries |-> Cardinality({i \in 1..Len(calls) : calls[i].name \in RegisteredTools}),
     writes |-> [NoWrites EXCEPT !.messages =
        [i \in 1..Len(calls) |->
            ToolMessage(FreshId(state) + i - 1,
                        IF calls[Len(calls) + 1 - i].name \in RegisteredTools
                        THEN execute_query_tool(oks[Len(calls) + 1 - i])
                        ELSE "not a valid tool",
                        calls[Len(calls) + 1 - i])]]]

ToolNodeRunsAll(state, oks) ==
    LET calls == LastMessage(state).tool_calls IN
    [ok |-> TRUE,
     queries |-> Len(calls),
     writes |-> [NoWrites EXCEPT !.messages =
        [i \in 1..Len(calls) |->
            ToolMessage(FreshId(state) + i - 1, execute_query_tool(oks[i]), calls[i])]]]

\* ToolNode([execute_query_tool]): one ToolMessage per tool call of the last
\* message, in the order of the calls; a call of a registered tool runs the
\* tool (one backend query each), a call of any other tool is answered with
\* an error message and runs nothing
ToolNode(state, oks) ==
    LET calls == LastMessage(state).tool_calls IN
    [ok |-> TRUE,
     queries |-> Cardinality({i \in 1..Len(calls) : calls[i].name \in RegisteredTools}),
     writes |-> [NoWrites EXCEPT !.messages =
        [i \in 1..Len(calls) |->
            ToolMessage(FreshId(state) + i - 1,
                        IF calls[i].name \in RegisteredTools
                        THEN execute_query_tool(oks[i])
                        ELSE "not a valid tool",
                        calls[i])]]]

get_state_any_tool(state) ==
    IF LastMessage(state).type = "ai" /\ Len(LastMessage(state).tool_calls) > 0
    THEN "execute_sql"
    ELSE END

get_state_scan_history(state) ==
    IF \E k \in 1..Len(state.messages) :
          /\ state.messages[k].type = "ai"
          /\ \E i \in 1..Len(state.messages[k].tool_calls) :
                state.messages[k].tool_calls[i].name = QueryTool
    THEN "execute_sql"
    ELSE END

\* get_state: the router of the conditional edge
get_state(state) ==
    IF LastMessage(state).type = "ai" /\ Len(LastMessage(state).tool_calls) > 0
    THEN IF \E i \in 1..Len(LastMessage(state).tool_calls) :
               LastMessage(state).tool_calls[i].name = QueryTool
         THEN "execute_sql"
         ELSE END
    ELSE END

SuccessorToolsEnd(n, state) ==
    CASE n = "get_schema" -> "data_chatbot"
      [] n = "data_chatbot" -> get_state(state)
      [] n = "execute_sql" -> END

\* the edges of the workflow
EntryNode == "get_schema"

Successor(n, state) ==
    CASE n = "get_schema" -> "data_chatbot"
      [] n = "data_chatbot" -> get_state(state)
      [] n = "execute_sql" -> "data_chatbot"

\* ---------------------------------------------------------------- run loop
LoopStopShort(first, limit) == first + limit

\* the superstep after which the run raises GraphRecursionError; superstep
\* first + 1 is the hidden __start__ node, so limit nodes of the workflow run
LoopStop(first, limit) == first + limit + 1

\* the state with the writes of the last node applied
Committed(t) == ApplyWrites(values[t], pending[t])

Ended == {"idle", "done", "error_schema", "error_llm", "out_of_steps"}

Init ==
    /\ store = [t \in ThreadIds |-> NoCheckpoints]
    /\ values = [t \in ThreadIds |-> EmptyState]
    /\ pending = [t \in ThreadIds |-> NoWrites]
    /\ node = [t \in ThreadIds |-> "none"]
    /\ status = [t \in ThreadIds |-> "idle"]
    /\ step = [t \in ThreadIds |-> -1]
    /\ stop = [t \in ThreadIds |-> -1]
    /\ updates = [t \in ThreadIds |-> 0]
    /\ fetches = [t \in ThreadIds |-> 0]
    /\ fault = [t \in ThreadIds |-> "none"]
    /\ users = [t \in ThreadIds |-> IF t = "101" THEN MaxTurns ELSE 0]
    /\ \E n \in (MaxRecursionLimit - 1)..MaxRecursionLimit :
          recursion_limit = [t \in ThreadIds |-> n]
    /\ queries = [t \in ThreadIds |-> 0]
    /\ repertoire = Responses

\* One user input: the checkpoint of the thread is loaded, the input is
\* checkpointed, the hidden __start__ node appends the HumanMessage, and the
\* entry node get_schema runs.
BeginTurn(t) ==
    /\ status[t] \in Ended
    /\ users[t] > 0
    /\ LET saved == Load(store[StoreKey(t)])
           first == saved.step + 1
           cps1 == Put(store[StoreKey(t)], saved.state, first, "input")
           v1 == ApplyWrites(saved.state,
                    [NoWrites EXCEPT !.messages = <<HumanMessage(FreshId(saved.state))>>])
           cps2 == Put(cps1, v1, first + 1, "loop")
       IN /\ first + 2 <= LoopStop(first, recursion_limit[t])
          /\ \E backend_ok \in BOOLEAN :
               LET r == get_schema_node(v1, backend_ok) IN
               /\ values' = [values EXCEPT ![t] = v1]
               /\ store' = [store EXCEPT ![StoreKey(t)] = cps2]
               /\ step' = [step EXCEPT ![t] = first + 2]
               /\ stop' = [stop EXCEPT ![t] = LoopStop(first, recursion_limit[t])]
               /\ pending' = [pending EXCEPT ![t] = r.writes]
               /\ node' = [node EXCEPT ![t] = EntryNode]
               /\ status' = [status EXCEPT ![t] = IF r.ok THEN "running" ELSE "error_schema"]
               /\ updates' = [updates EXCEPT ![t] = IF r.ok THEN 1 ELSE 0]
               /\ fetches' = [fetches EXCEPT ![t] = @ + r.calls]
               /\ fault' = [fault EXCEPT ![t] =
                              IF r.calls > 0 /\ ~backend_ok THEN "schema" ELSE "none"]
    /\ users' = [users EXCEPT ![t] = @ - 1]
    /\ queries' = [queries EXCEPT ![t] = 0]
    /\ UNCHANGED <<recursion_limit, repertoire>>

\* The writes of the last node are applied and checkpointed, the step
\* counter advances; shared by every step after the first of a turn.
Commit(t) ==
    /\ status[t] = "running"
    /\ values' = [values EXCEPT ![t] = Committed(t)]
    /\ store' = [store EXCEPT ![StoreKey(t)] =
                    Put(store[StoreKey(t)], Committed(t), step[t], "loop")]
    /\ step' = [step EXCEPT ![t] = @ + 1]
    /\ UNCHANGED <<stop, fetches, users, recursion_limit, repertoire>>

\* data_chatbot runs after get_schema and after execute_sql
ChatbotStep(t) ==
    /\ Commit(t)
    /\ step[t] + 1 <= stop[t]
    /\ Successor(node[t], Committed(t)) = "data_chatbot"
    /\ \E llm \in LlmOutcomes(repertoire) :
         LET r == data_chatbot_node(Committed(t), llm) IN
         /\ pending' = [pending EXCEPT ![t] = r.writes]
         /\ status' = [status EXCEPT ![t] = IF r.ok THEN "running" ELSE "error_llm"]
         /\ updates' = [updates EXCEPT ![t] = IF r.ok THEN @ + 1 ELSE @]
         /\ fault' = [fault EXCEPT ![t] = IF llm.ok THEN "none" ELSE "llm"]
    /\ queries' = [queries EXCEPT ![t] = 0]
    /\ node' = [node EXCEPT ![t] = "data_chatbot"]

\* execute_sql runs when the router sends the response of the model to it
ToolsStep(t) ==
    /\ Commit(t)
    /\ step[t] + 1 <= stop[t]
    /\ Successor(node[t], Committed(t)) = "execute_sql"
    /\ \E oks \in [1..Len(LastMessage(Committed(t)).tool_calls) -> BOOLEAN] :
         LET r == ToolNode(Committed(t), oks)
             calls == LastMessage(Committed(t)).tool_calls
         IN /\ pending' = [pending EXCEPT ![t] = r.writes]
            /\ queries' = [queries EXCEPT ![t] = r.queries]
            /\ fault' = [fault EXCEPT ![t] =
                           IF \E i \in 1..Len(calls) : calls[i].name = QueryTool /\ ~oks[i]
                           THEN "query" ELSE "none"]
    /\ status' = [status EXCEPT ![t] = "running"]
    /\ updates' = [updates EXCEPT ![t] = @ + 1]
    /\ node' = [node EXCEPT ![t] = "execute_sql"]

\* the router answers END: the run is over
Finish(t) ==
    /\ Commit(t)
    /\ step[t] + 1 <= stop[t]
    /\ Successor(node[t], Committed(t)) = END
    /\ pending' = [pending EXCEPT ![t] = NoWrites]
    /\ status' = [status EXCEPT ![t] = "done"]
    /\ fault' = [fault EXCEPT ![t] = "none"]
    /\ queries' = [queries EXCEPT ![t] = 0]
    /\ UNCHANGED <<node, updates>>

OutOfStepsNoCommit(t) ==
    /\ status[t] = "running"
    /\ step[t] + 1 > stop[t]
    /\ step' = [step EXCEPT ![t] = @ + 1]
    /\ pending' = [pending EXCEPT ![t] = NoWrites]
    /\ status' = [status EXCEPT ![t] = "out_of_steps"]
    /\ fault' = [fault EXCEPT ![t] = "none"]
    /\ queries' = [queries EXCEPT ![t] = 0]
    /\ UNCHANGED <<values, store, node, updates, stop, fetches, users,
                   recursion_limit, repertoire>>

OutOfStepsNotRaised(t) ==
    /\ status[t] = "running"
    /\ step[t] + 1 > stop[t]
    /\ UNCHANGED vars

\* the recursion limit trips: GraphRecursionError
OutOfSteps(t) ==
    /\ Commit(t)
    /\ step[t] + 1 > stop[t]
    /\ pending' = [pending EXCEPT ![t] = NoWrites]
    /\ status' = [status EXCEPT ![t] = "out_of_steps"]
    /\ fault' = [fault EXCEPT ![t] = "none"]
    /\ queries' = [queries EXCEPT ![t] = 0]
    /\ UNCHANGED <<node, updates>>

Next ==
    \E t \in ThreadIds :
        \/ BeginTurn(t)
        \/ ChatbotStep(t)
        \/ ToolsStep(t)
        \/ Finish(t)
        \/ OutOfSteps(t)

Spec == Init /\ [][Next]_vars

\* Two conversations with different thread ids, one user input each, driven
\* in any interleaving by one process that shares the checkpointer.
InitConc ==
    /\ store = [t \in ThreadIds |-> NoCheckpoints]
    /\ values = [t \in ThreadIds |-> EmptyState]
    /\ pending = [t \in ThreadIds |-> NoWrites]
    /\ node = [t \in ThreadIds |-> "none"]
    /\ status = [t \in ThreadIds |-> "idle"]
    /\ step = [t \in ThreadIds |-> -1]
    /\ stop = [t \in ThreadIds |-> -1]
    /\ updates = [t \in ThreadIds |-> 0]
    /\ fetches = [t \in ThreadIds |-> 0]
    /\ fault = [t \in ThreadIds |-> "none"]
    /\ users = [t \in ThreadIds |-> 1]
    /\ \E n \in (MaxRecursionLimit - 1)..MaxRecursionLimit :
          recursion_limit = [t \in ThreadIds |-> n]
    /\ queries = [t \in ThreadIds |-> 0]
    /\ repertoire = Responses

SpecConc == InitConc /\ [][Next]_vars

\* The conversation of the notebook: thread "101", a first input and one
\* follow-up input on the saved history.
InitLive ==
    /\ store = [t \in ThreadIds |-> NoCheckpoints]
    /\ values = [t \in ThreadIds |-> EmptyState]
    /\ pending = [t \in ThreadIds |-> NoWrites]
    /\ node = [t \in ThreadIds |-> "none"]
    /\ status = [t \in ThreadIds |-> "idle"]
    /\ step = [t \in ThreadIds |-> -1]
    /\ stop = [t \in ThreadIds |-> -1]
    /\ updates = [t \in ThreadIds |-> 0]
    /\ fetches = [t \in ThreadIds |-> 0]
    /\ fault = [t \in ThreadIds |-> "none"]
    /\ users = [t \in ThreadIds |-> IF t = "101" THEN 2 ELSE 0]
    /\ \E n \in (MaxRecursionLimit - 1)..MaxRecursionLimit :
          recursion_limit = [t \in ThreadIds |-> n]
    /\ queries = [t \in ThreadIds |-> 0]
    /\ repertoire = Responses

\* One input on thread "101", answered by a model that may also ask for
\* several queries in one message.
InitTools ==
    /\ store = [t \in ThreadIds |-> NoCheckpoints]
    /\ values = [t \in ThreadIds |-> EmptyState]
    /\ pending = [t \in ThreadIds |-> NoWrites]
    /\ node = [t \in ThreadIds |-> "none"]
    /\ status = [t \in ThreadIds |-> "idle"]
    /\ step = [t \in ThreadIds |-> -1]
    /\ stop = [t \in ThreadIds |-> -1]
    /\ updates = [t \in ThreadIds |-> 0]
    /\ fetches = [t \in ThreadIds |-> 0]
    /\ fault = [t \in ThreadIds |-> "none"]
    /\ users = [t \in ThreadIds |-> IF t = "101" THEN 1 ELSE 0]
    /\ \E n \in (MaxRecursionLimit - 1)..MaxRecursionLimit :
          recursion_limit = [t \in ThreadIds |-> n]
    /\ queries = [t \in ThreadIds |-> 0]
    /\ repertoire = MultiResponses

SpecTools == InitTools /\ [][Next]_vars

\* One iteration of the for loop over graph.stream: the generator is resumed
\* and runs to its next yield, its return or its exception.
StreamNext(t) ==
    \/ ChatbotStep(t)
    \/ ToolsStep(t)
    \/ Finish(t)
    \/ OutOfSteps(t)

\* The for loop keeps resuming the generator of a started turn and every
\* call of a node returns or raises; when the user sends the next input is
\* left open.
LiveSpec ==
    /\ InitLive
    /\ [][Next]_vars
    /\ \A t \in ThreadIds : WF_vars(StreamNext(t))

\* ------------------------------------------------------- claim vocabulary
HasCall(m, name) ==
    m.type = "ai" /\ \E i \in 1..Len(m.tool_calls) : m.tool_calls[i].name = name

\* the saved state of a thread
Checkpoint(t) == Load(store[t]).state

\* the positions of the messages of the current turn: those after the last
\* HumanMessage
TurnPositions(msgs) ==
    {i \in 1..Len(msgs) : \A j \in i..Len(msgs) : msgs[j].type # "human"}

\* -------------------------------------------------------------------- C1
\* C1: on every non-empty history the router returns "execute_sql" exactly
\* when the last message is an assistant message with a tool call named
\* execute_query_tool, and END in every other case; the run follows it: the
\* tools node has run only on such a message and a turn is done only on a
\* message that is not one.
C1_RouterDecision ==
    \A t \in ThreadIds :
        Len(values[t].messages) > 0 =>
            /\ get_state(values[t]) = "execute_sql"
                   <=> HasCall(LastMessage(values[t]), QueryTool)
            /\ get_state(values[t]) # "execute_sql" => get_state(values[t]) = END
            /\ (status[t] = "running" /\ node[t] = "execute_sql")
                   => HasCall(LastMessage(values[t]), QueryTool)
            /\ status[t] = "done" => ~HasCall(LastMessage(values[t]), QueryTool)

\* a turn that ended on a message invoking SubmitFinalAnswer only
C1_Witness ==
    \E t \in ThreadIds :
        /\ status[t] = "done"
        /\ HasCall(LastMessage(values[t]), SubmitTool)
        /\ ~HasCall(LastMessage(values[t]), QueryTool)

\* -------------------------------------------------------------------- C2
\* C2: a turn never yields more node executions than its recursion limit,
\* and a turn that ends with the recursion-limit error has executed exactly
\* that many nodes.
C2_StepBudget ==
    \A t \in ThreadIds :
        /\ updates[t] <= recursion_limit[t]
        /\ status[t] = "out_of_steps" => updates[t] = recursion_limit[t]

\* the model asked for the query tool in every response of the thread and
\* the run was halted by the limit
C2_Witness ==
    \E t \in ThreadIds :
        /\ status[t] = "out_of_steps"
        /\ updates[t] = MaxRecursionLimit
        /\ \A i \in 1..Len(values[t].messages) :
              values[t].messages[i].content = "response"
                  => HasCall(values[t].messages[i], QueryTool)

\* -------------------------------------------------------------------- C3
\* C3 as stated: at most one get_schema() call over the lifetime of a thread.
C3_Original == \A t \in ThreadIds : fetches[t] <= 1

\* C3 amended: a step issues at most one get_schema() call, only while the
\* saved schema of the thread is absent, and a call after the first one is
\* issued only when the fetch of the turn before failed; so no call follows
\* a successful fetch.
C3_Amended ==
    [][\A t \in ThreadIds :
          fetches'[t] # fetches[t] =>
              /\ fetches'[t] = fetches[t] + 1
              /\ Checkpoint(t).dataset_schema = None
              /\ fetches[t] = 0 \/ fault[t] = "schema"]_vars

\* a second turn on a thread whose schema is cached: no second call
C3_Witness ==
    \E t \in ThreadIds :
        /\ users[t] = MaxTurns - 2
        /\ node[t] = "get_schema"
        /\ values[t].dataset_schema = SchemaJson
        /\ fetches[t] = 1

\* -------------------------------------------------------------------- C4
\* C4: every step, of every turn, leaves the message history it found as a
\* prefix of the history it leaves, in the run loop and in the checkpoint.
C4_AppendOnly ==
    [][\A t \in ThreadIds :
          /\ IsPrefix(values[t].messages, values'[t].messages)
          /\ IsPrefix(Checkpoint(t).messages, Load(store'[t]).state.messages)]_vars

\* a tools step of a second turn, on top of the history of the first
C4_Witness ==
    \E t \in ThreadIds :
        /\ users[t] = MaxTurns - 2
        /\ node[t] = "execute_sql"
        /\ Len(Committed(t).messages) > 6

\* -------------------------------------------------------------------- C5
\* C5 as stated: after an assistant message of the turn has invoked
\* SubmitFinalAnswer the router answers END and the tools node does not run
\* in that turn, also when the message invokes execute_query_tool as well.
C5_Original ==
    \A t \in ThreadIds :
        \A i \in TurnPositions(values[t].messages) :
            HasCall(values[t].messages[i], SubmitTool) =>
                /\ i = Len(values[t].messages) => get_state(values[t]) = END
                /\ ~(status[t] = "running" /\ node[t] = "execute_sql")

\* -------------------------------------------------------------------- C6
\* C6 as stated: the turn after a turn that reached DONE enters at the
\* reasoning node.
C6_Original ==
    [][\A t \in ThreadIds :
          (status[t] = "done" /\ users'[t] < users[t])
              => node'[t] = "data_chatbot"]_vars

\* C6 amended: every turn, the one after a DONE turn included, enters at
\* get_schema; after a DONE turn the node finds the schema saved, issues no
\* backend call, returns only the note "Schema retrieved from memory", and
\* data_chatbot is the node that follows.
C6_Amended ==
    [][\A t \in ThreadIds :
          users'[t] < users[t] =>
              /\ node'[t] = "get_schema"
              /\ status[t] = "done" =>
                    /\ status'[t] = "running"
                    /\ fetches'[t] = fetches[t]
                    /\ ~pending'[t].set_schema
                    /\ Len(pending'[t].messages) = 1
                    /\ pending'[t].messages[1].content = "Schema retrieved from memory"
                    /\ Successor(node'[t], values'[t]) = "data_chatbot"]_vars

\* the second turn has entered at get_schema after a first turn of two
\* nodes, which ended DONE on a response without tool calls
C6_Witness ==
    \E t \in ThreadIds :
        /\ users[t] = MaxTurns - 2
        /\ status[t] = "running"
        /\ node[t] = "get_schema"
        /\ Len(values[t].messages) = 4
        /\ values[t].messages[3].content = "response"

C10_FatalFailure ==
    [][\A t \in ThreadIds :
          /\ (fault'[t] = "schema" /\ step'[t] # step[t]) =>
                /\ status'[t] = "error_schema"
                /\ pending'[t] = NoWrites
                /\ values'[t].dataset_schema = None
                /\ LastMessage(values'[t]).type = "human"
                /\ Load(store'[t]).state = values'[t]
          /\ (fault'[t] = "llm" /\ step'[t] # step[t]) =>
                /\ status'[t] = "error_llm"
                /\ pending'[t] = NoWrites
                /\ values'[t] = Committed(t)
                /\ Load(store'[t]).state = values'[t]
          /\ (status[t] \in {"error_schema", "error_llm"} /\ step'[t] # step[t]) =>
                users'[t] < users[t]]_vars

\* the fetch of the first turn failed, the second turn fetched the schema
\* and then the call of the model failed
C10_Witness ==
    \E t \in ThreadIds :
        /\ fault[t] = "llm"
        /\ status[t] = "error_llm"
        /\ fetches[t] = 2
        /\ values[t].dataset_schema = SchemaJson

\* -------------------------------------------------------------------- C11
\* C11: the step that ends a turn with the recursion-limit error leaves
\* exactly the state the last completed node produced: the history it found
\* with the writes of that node appended and the schema as that node left
\* it; that state is the checkpoint of the thread, nothing stays pending,
\* no node has run in the step, and the messages of the turn are all there.
C11_LimitKeepsState ==
    [][\A t \in ThreadIds :
          (status'[t] = "out_of_steps" /\ status[t] = "running") =>
              /\ IsPrefix(values[t].messages, values'[t].messages)
              /\ SubSeq(values'[t].messages, Len(values[t].messages) + 1,
                        Len(values'[t].messages)) = pending[t].messages
              /\ values'[t].dataset_schema =
                    (IF pending[t].set_schema THEN pending[t].dataset_schema
                     ELSE values[t].dataset_schema)
              /\ Load(store'[t]).state = values'[t]
              /\ pending'[t] = NoWrites
              /\ node'[t] = node[t]
              /\ updates'[t] = updates[t]
              /\ fetches'[t] = fetches[t]]_vars

\* the limit tripped after a tools node: its tool message is the last
\* message of the checkpoint
C11_Witness ==
    \E t \in ThreadIds :
        /\ status[t] = "out_of_steps"
        /\ node[t] = "execute_sql"
        /\ LastMessage(Checkpoint(t)).type = "tool"
        /\ Checkpoint(t) = values[t]

\* -------------------------------------------------------------------- C12
\* C12: in every interleaving of two threads, a step of one thread leaves
\* the stored checkpoints and the run state of the other thread unchanged,
\* and what is stored for a thread is what that thread's own run saved: as
\* many checkpoints as its own steps wrote, the latest one equal to the
\* state of its own run.
C12_ThreadsIndependent ==
    [][\A t \in ThreadIds :
          /\ step'[t] = step[t] =>
                /\ store'[t] = store[t]
                /\ values'[t] = values[t]
                /\ pending'[t] = pending[t]
          /\ Cardinality(DOMAIN store'[t]) = step'[t] + 1
          /\ status'[t] # "idle" => Load(store'[t]).state = values'[t]]_vars

\* both threads have run, to different histories
C12_Witness ==
    \E t \in ThreadIds, u \in ThreadIds :
        /\ t # u
        /\ status[t] = "done"
        /\ status[u] = "out_of_steps"
        /\ Checkpoint(t) # Checkpoint(u)
        /\ Len(Checkpoint(u).messages) > Len(Checkpoint(t).messages)

\* -------------------------------------------------------------------- C13
\* C13: every turn that has started eventually ends, with the final answer,
\* with a fatal error of a collaborator or with the recursion-limit error,
\* whatever the model and the backend answer; while it runs, its step
\* counter stays within the budget fixed at its start.
C13_TurnEnds ==
    /\ \A t \in ThreadIds :
          (status[t] = "running") ~> (status[t] \in Ended \ {"idle"})
    /\ [](\A t \in ThreadIds : status[t] = "running" => step[t] <= stop[t])

\* a model that asked for a query after every failed query was halted
C13_Witness ==
    \E t \in ThreadIds :
        /\ status[t] = "out_of_steps"
        /\ \E i \in 1..Len(values[t].messages) :
              /\ values[t].messages[i].type = "tool"
              /\ values[t].messages[i].content = "BigQuery error"
              /\ i < Len(values[t].messages)
              /\ HasCall(LastMessage(values[t]), QueryTool)

\* -------------------------------------------------------------------- C14
\* the step of thread t follows an edge of the workflow: after get_schema
\* and after execute_sql the chatbot runs, after the chatbot the tools run
\* if the router answers execute_sql and the turn is done if it answers END
ListedTransition(t) ==
    CASE node[t] = "get_schema" ->
            /\ node'[t] = "data_chatbot"
            /\ status'[t] \in {"running", "error_llm"}
      [] node[t] = "data_chatbot" ->
            /\ get_state(Committed(t)) = "execute_sql" =>
                  (node'[t] = "execute_sql" /\ status'[t] = "running")
            /\ get_state(Committed(t)) = END =>
                  (node'[t] = node[t] /\ status'[t] = "done")
      [] node[t] = "execute_sql" ->
            /\ node'[t] = "data_chatbot"
            /\ status'[t] \in {"running", "error_llm"}

\* C14 as stated: every step of a running turn follows a listed edge, the
\* chatbot is followed by the tools exactly when the router answers
\* execute_sql and by the end exactly when it answers END, the tools are
\* always followed by the chatbot, and a turn that is over moves only by
\* the next user input, which enters at get_schema.
C14_Original ==
    [][\A t \in ThreadIds :
          /\ (status[t] \in Ended /\ step'[t] # step[t]) =>
                (node'[t] = EntryNode /\ users'[t] = users[t] - 1)
          /\ (status[t] = "running" /\ step'[t] # step[t]) =>
                ListedTransition(t)]_vars

\* C14 amended: as above, unless the node that just ran was the last one
\* the recursion limit allows: then no edge is followed, whatever the
\* router answers, and the turn ends with the recursion-limit error.
C14_Amended ==
    [][\A t \in ThreadIds :
          /\ (status[t] \in Ended /\ step'[t] # step[t]) =>
                (node'[t] = EntryNode /\ users'[t] = users[t] - 1)
          /\ (status[t] = "running" /\ step'[t] # step[t]) =>
                IF step[t] + 1 > stop[t]
                THEN node'[t] = node[t] /\ status'[t] = "out_of_steps"
                ELSE ListedTransition(t)]_vars

\* the edge from the tools back to the chatbot was taken after a query
\* that returned rows
C14_Witness ==
    \E t \in ThreadIds :
        /\ node[t] = "data_chatbot"
        /\ status[t] = "running"
        /\ updates[t] = 4
        /\ LastMessage(values[t]).type = "tool"
        /\ LastMessage(values[t]).content = "rows"

\* -------------------------------------------------------------------- C15
\* C15: once the schema of a thread is set, in the state of the run, in the
\* state with the writes of the last node applied and in the checkpoint, no
\* later step of any turn changes it, and no node that finds it present
\* writes the schema field.
C15_SchemaFixed ==
    [][\A t \in ThreadIds :
          /\ values[t].dataset_schema # None =>
                /\ values'[t].dataset_schema = values[t].dataset_schema
                /\ ~pending'[t].set_schema
          /\ Committed(t).dataset_schema # None =>
                ApplyWrites(values'[t], pending'[t]).dataset_schema =
                    Committed(t).dataset_schema
          /\ Checkpoint(t).dataset_schema # None =>
                Load(store'[t]).state.dataset_schema =
                    Checkpoint(t).dataset_schema]_vars

\* in a later turn the schema node, the chatbot and the tools have run on
\* the schema fetched in the first turn
C15_Witness ==
    \E t \in ThreadIds :
        /\ users[t] = MaxTurns - 2
        /\ node[t] = "execute_sql"
        /\ status[t] = "running"
        /\ fetches[t] = 1
        /\ values[t].dataset_schema = SchemaJson
        /\ Checkpoint(t).dataset_schema = SchemaJson

\* -------------------------------------------------------------------- C16
\* C16: when the tools node has run, its messages are appended to the
\* history, each execute_query_tool call of the last AI message has exactly
\* one tool message among them, carrying the id of the call and the result
\* of the tool, and the results of two such calls stand in the order of the
\* calls.
C16_OneResultPerCall ==
    \A t \in ThreadIds :
        (status[t] = "running" /\ node[t] = "execute_sql") =>
            LET calls == LastMessage(values[t]).tool_calls
                results == pending[t].messages
                Of(i) == {j \in 1..Len(results) :
                            /\ results[j].type = "tool"
                            /\ results[j].tool_call_id = calls[i].id}
            IN /\ Committed(t).messages = values[t].messages \o results
               /\ \A i \in 1..Len(calls) :
                     calls[i].name = QueryTool =>
                        /\ Cardinality(Of(i)) = 1
                        /\ \A j \in Of(i) :
                              results[j].content \in {"rows", "BigQuery error"}
               /\ \A i \in 1..Len(calls), k \in 1..Len(calls) :
                     (i < k /\ calls[i].name = QueryTool /\ calls[k].name = QueryTool) =>
                        \A j \in Of(i), l \in Of(k) : j < l

\* the tools node has answered a message with two query calls, the first
\* failed and the second returned rows
C16_Witness ==
    \E t \in ThreadIds :
        /\ status[t] = "running"
        /\ node[t] = "execute_sql"
        /\ Len(LastMessage(values[t]).tool_calls) = 2
        /\ \A i \in 1..2 : LastMessage(values[t]).tool_calls[i].name = QueryTool
        /\ pending[t].messages[1].content = "BigQuery error"
        /\ pending[t].messages[2].content = "rows"

\* -------------------------------------------------------------------- C17
\* C17: the answer of the router on a state is its answer on every state
\* with the same last message: with any shorter beginning of the history,
\* or nothing, before that message, and with the schema present or absent.
\* The router is a function of the state it is given and of nothing else
\* (it takes no thread and assigns nothing), which the operator get_state
\* renders.
C17_LastMessageOnly ==
    \A t \in ThreadIds :
        \A s \in {values[t], Committed(t)} :
            Len(s.messages) > 0 =>
                LET last == LastMessage(s)
                    answer == get_state(s)
                IN \A b \in 0..(Len(s.messages) - 1), sch \in {None, SchemaJson} :
                      get_state([messages |-> Append(SubSeq(s.messages, 1, b), last),
                                 dataset_schema |-> sch]) = answer

\* the router sends a follow-up turn to the tools although the history
\* before the last message holds a final answer, and it ended the first
\* turn although the history held a query call
C17_Witness ==
    \E t \in ThreadIds :
        /\ status[t] = "running"
        /\ node[t] = "execute_sql"
        /\ get_state(values[t]) = "execute_sql"
        /\ \E i \in 1..(Len(values[t].messages) - 1) :
              /\ values[t].messages[i].type = "ai"
              /\ values[t].messages[i].content = "response"
              /\ get_state([values[t] EXCEPT
                               !.messages = SubSeq(values[t].messages, 1, i)]) = END

C19_Original ==
    \A t \in ThreadIds :
        (node[t] = "data_chatbot" /\ status[t] \in {"running", "error_llm"}) =>
            \A k \in 1..Len(values[t].messages) :
                values[t].messages[k].type = "ai" =>
                    \A i \in 1..Len(values[t].messages[k].tool_calls) :
                        values[t].messages[k].tool_calls[i].name = QueryTool =>
                            \E j \in (k + 1)..Len(values[t].messages) :
                                /\ values[t].messages[j].type = "tool"
                                /\ values[t].messages[j].tool_call_id =
                                      values[t].messages[k].tool_calls[i].id

\* -------------------------------------------------------------------- C20
\* C20: whenever the chatbot has run, in the first turn, in a later turn
\* and in a turn that follows a failed or aborted one, the state it was
\* given holds the schema.
C20_SchemaBeforeChatbot ==
    \A t \in ThreadIds :
        node[t] = "data_chatbot" =>
            /\ values[t].dataset_schema # None
            /\ values[t].dataset_schema = SchemaJson

\* the chatbot runs in a turn that follows a turn whose schema fetch failed
C20_Witness ==
    \E t \in ThreadIds :
        /\ node[t] = "data_chatbot"
        /\ status[t] = "running"
        /\ fetches[t] = 2
        /\ Len(values[t].messages) = 3
        /\ values[t].dataset_schema = SchemaJson

====
